---- MODULE Spec2Model ----
(***************************************************************************)
(* save-POST.py: a CGI script that saves the POST body it reads on stdin   *)
(* to two files, one with a unique name and one named "..._latest.txt".    *)
(* The script is Python 2 (print statement on line 97).                    *)
(*                                                                         *)
(* Text is a sequence of one-character strings.  An invocation is one run  *)
(* of main(); several invocations share the filesystem and the clock.      *)
(***************************************************************************)
EXTENDS Integers, Sequences, FiniteSets, TLC

(***************************************************************************)
(* Bounds of the model.                                                    *)
(***************************************************************************)
\* every text over EnumAlphabet of at most this length is a possible input
MaxLen == 2
\* time.time() yields a value in 0..MaxTime
MaxTime == 1

(***************************************************************************)
(* Characters and text.                                                    *)
(***************************************************************************)
QUOTE == "\""
NL    == "\n"
SP    == " "
\* the byte a hole of a file reads as
NUL   == "NUL"

\* code point of the characters the inputs are made of
Ord(c) ==
  CASE c = NL    -> 10
    [] c = SP    -> 32
    [] c = QUOTE -> 34
    [] c = ","   -> 44
    [] c = "1"   -> 49
    [] c = "2"   -> 50
    [] c = ":"   -> 58
    [] c = "a"   -> 97
    [] c = "b"   -> 98
    [] c = "{"   -> 123
    [] c = "}"   -> 125

Digits == {"1", "2"}
\* json.decoder.WHITESPACE, restricted to the characters of the inputs
WHITESPACE == {SP, NL}

DecimalDigits == <<"0", "1", "2", "3", "4", "5", "6", "7", "8", "9">>
DigitChr(d) == DecimalDigits[d + 1]
DigitVal(c) == CHOOSE d \in 0..9 : DigitChr(d) = c

\* first position >= i of s that holds no whitespace (Len(s)+1 when none)
RECURSIVE SkipWS(_, _)
SkipWS(s, i) ==
  IF i <= Len(s) /\ s[i] \in WHITESPACE THEN SkipWS(s, i + 1) ELSE i

\* first position >= i of s that holds no digit
RECURSIVE SkipDigits(_, _)
SkipDigits(s, i) ==
  IF i <= Len(s) /\ s[i] \in Digits THEN SkipDigits(s, i + 1) ELSE i

\* int() of a run of digits
RECURSIVE ParseInt(_)
ParseInt(ds) ==
  IF ds = <<>> THEN 0
  ELSE 10 * ParseInt(SubSeq(ds, 1, Len(ds) - 1)) + DigitVal(ds[Len(ds)])

\* str() of a natural number
RECURSIVE FormatInt(_)
FormatInt(n) ==
  IF n < 10 THEN <<DigitChr(n)>>
  ELSE Append(FormatInt(n \div 10), DigitChr(n % 10))

\* position of the first QUOTE of s at or after i (0 when there is none)
RECURSIVE FindQuote(_, _)
FindQuote(s, i) ==
  IF i > Len(s) THEN 0
  ELSE IF s[i] = QUOTE THEN i ELSE FindQuote(s, i + 1)

(***************************************************************************)
(* json.loads.  A parse result is [ok, val, end]: end is the position      *)
(* after the value.  Values: [t |-> "num", v |-> n], [t |-> "str", v |->   *)
(* text], [t |-> "obj", v |-> function from key text to value].            *)
(***************************************************************************)
ParseFail == [ok |-> FALSE, val |-> <<>>, end |-> 0]

\* scanstring: s[i] is the position after the opening quote
ScanString(s, i) ==
  LET q == FindQuote(s, i)
  IN  IF q = 0 THEN ParseFail
      ELSE [ok |-> TRUE, val |-> [t |-> "str", v |-> SubSeq(s, i, q - 1)],
            end |-> q + 1]

\* the later pair of a repeated key replaces the earlier one (dict(pairs))
DictSet(d, k, v) == (k :> v) @@ d

RECURSIVE ScanOnce(_, _)
RECURSIVE ParsePairs(_, _, _)

\* JSONObject, at the opening quote of a key, with the pairs read so far
ParsePairs(s, i, d) ==
  IF i > Len(s) \/ s[i] # QUOTE THEN ParseFail
  ELSE
    LET key == ScanString(s, i + 1)
    IN  IF ~key.ok THEN ParseFail
        ELSE
          LET c == SkipWS(s, key.end)
          IN  IF c > Len(s) \/ s[c] # ":" THEN ParseFail
              ELSE
                LET val == ScanOnce(s, SkipWS(s, c + 1))
                IN  IF ~val.ok THEN ParseFail
                    ELSE
                      LET e  == SkipWS(s, val.end)
                          d2 == DictSet(d, key.val.v, val.val)
                      IN  IF e > Len(s) THEN ParseFail
                          ELSE IF s[e] = "}"
                            THEN [ok |-> TRUE, val |-> [t |-> "obj", v |-> d2],
                                  end |-> e + 1]
                          ELSE IF s[e] = ","
                            THEN ParsePairs(s, SkipWS(s, e + 1), d2)
                          ELSE ParseFail

\* JSONObject: i is the position after the opening brace
ParseObject(s, i) ==
  LET j == SkipWS(s, i)
  IN  IF j <= Len(s) /\ s[j] = "}"
        THEN [ok |-> TRUE, val |-> [t |-> "obj", v |-> <<>>], end |-> j + 1]
        ELSE ParsePairs(s, j, <<>>)

\* scanner.py_make_scanner._scan_once
ScanOnce(s, i) ==
  IF i > Len(s) THEN ParseFail
  ELSE IF s[i] = QUOTE THEN ScanString(s, i + 1)
  ELSE IF s[i] = "{" THEN ParseObject(s, i + 1)
  ELSE IF s[i] \in Digits
    THEN LET e == SkipDigits(s, i)
         IN  [ok |-> TRUE,
              val |-> [t |-> "num", v |-> ParseInt(SubSeq(s, i, e - 1))],
              end |-> e]
  ELSE ParseFail

\* JSONDecoder.decode: one value, whitespace allowed around it, nothing else
JsonLoads(s) ==
  LET r == ScanOnce(s, SkipWS(s, 1))
  IN  IF r.ok /\ SkipWS(s, r.end) = Len(s) + 1 THEN r ELSE ParseFail

(***************************************************************************)
(* json.dumps( v, sort_keys = True, indent = 4 ), Python 2.7: the item     *)
(* separator stays ", " when indent is given.                              *)
(***************************************************************************)
RECURSIVE Spaces(_)
Spaces(n) == IF n = 0 THEN <<>> ELSE <<SP>> \o Spaces(n - 1)

\* a < b for texts, by code point (the order sorted() puts keys in)
RECURSIVE TextLess(_, _)
TextLess(a, b) ==
  IF b = <<>> THEN FALSE
  ELSE IF a = <<>> THEN TRUE
  ELSE IF Ord(a[1]) # Ord(b[1]) THEN Ord(a[1]) < Ord(b[1])
  ELSE TextLess(Tail(a), Tail(b))

\* the least key of a non-empty set of keys
MinKey(ks) == CHOOSE k \in ks : \A o \in ks \ {k} : TextLess(k, o)

\* sorted(keys)
RECURSIVE SortKeys(_)
SortKeys(ks) ==
  IF ks = {} THEN <<>>
  ELSE LET k == MinKey(ks) IN <<k>> \o SortKeys(ks \ {k})

IndentWidth == 4

RECURSIVE JsonDumps(_, _)
RECURSIVE DumpItems(_, _, _, _)

\* the pairs of dict d for keys ks[i..], at nesting level lvl
DumpItems(d, ks, i, lvl) ==
  IF i > Len(ks) THEN <<>>
  ELSE (IF i > 1 THEN <<",", SP>> ELSE <<>>)
       \o <<NL>> \o Spaces(IndentWidth * lvl)
       \o <<QUOTE>> \o ks[i] \o <<QUOTE, ":", SP>>
       \o JsonDumps(d[ks[i]], lvl)
       \o DumpItems(d, ks, i + 1, lvl)

\* JSONEncoder.iterencode, at nesting level lvl
JsonDumps(val, lvl) ==
  IF val.t = "num" THEN FormatInt(val.v)
  ELSE IF val.t = "str" THEN <<QUOTE>> \o val.v \o <<QUOTE>>
  ELSE IF DOMAIN val.v = {} THEN <<"{", "}">>
  ELSE <<"{">> \o DumpItems(val.v, SortKeys(DOMAIN val.v), 1, lvl + 1)
       \o <<NL>> \o Spaces(IndentWidth * lvl) \o <<"}">>

(***************************************************************************)
(* The inputs an invocation can be given.                                  *)
(***************************************************************************)
EnumAlphabet == {"{", "}", QUOTE, "a", "1", SP, NL}

\* every text over EnumAlphabet of length at most n
RECURSIVE Texts(_)
Texts(n) ==
  IF n = 0 THEN {<<>>}
  ELSE LET shorter == Texts(n - 1)
       IN  shorter \cup {Append(t, c) : t \in shorter, c \in EnumAlphabet}

\* {"b": 1, "a": 2}
SampleObject ==
  <<"{", QUOTE, "b", QUOTE, ":", SP, "1", ",", SP,
    QUOTE, "a", QUOTE, ":", SP, "2", "}">>
\* {"b":{"a":12},"a":"b","b":{"b":1,"a":2}}  (nested, key b given twice)
SampleNested ==
  <<"{", QUOTE, "b", QUOTE, ":", "{", QUOTE, "a", QUOTE, ":", "1", "2", "}", ",",
    QUOTE, "a", QUOTE, ":", QUOTE, "b", QUOTE, ",",
    QUOTE, "b", QUOTE, ":", "{", QUOTE, "b", QUOTE, ":", "1", ",",
    QUOTE, "a", QUOTE, ":", "2", "}", "}">>
\* {"a":1,}  (no JSON: a comma before the closing brace)
SampleBroken == <<"{", QUOTE, "a", QUOTE, ":", "1", ",", "}">>
\* ab ba  (no JSON)
SampleText == <<"a", "b", SP, "b", "a">>
\* 21 followed by a newline
SampleNumber == <<"2", "1", NL>>

Samples == {SampleObject, SampleNested, SampleBroken, SampleText, SampleNumber}

\* what stdin can hold in a single invocation
Inputs == Samples \cup Texts(MaxLen)

\* what stdin can hold when two invocations run
SharedInputs == {SampleObject, SampleText, <<"1">>}

(***************************************************************************)
(* The environment: the I/O operation of an invocation that fails, if any  *)
(* (every failure ends the invocation, so at most one is ever met).        *)
(***************************************************************************)
Faults ==
  {"none", "read", "open_ts", "open_latest", "write_ts", "write_latest",
   "nl_ts", "nl_latest", "close_ts", "close_latest"}

\* the operations that can fail when two invocations run
SharedFaults == {"none", "open_latest", "nl_latest"}

\* the values uuid.uuid4().hex can return
UUIDs == {"u1", "u2"}

\* what the latest file holds when it is there before the first invocation
OldContent == <<"a", NL>>

(***************************************************************************)
(* Files: fs maps each existing path to its content.  A handle is          *)
(* [st, path, pos]; open( path, 'w' ) creates or truncates and starts at   *)
(* position 0; write puts the data at the handle's own position.           *)
(***************************************************************************)
NoHandle == [st |-> "unassigned", path |-> <<>>, pos |-> 0]

\* open( path, 'r+' ) in place of 'w': an existing file keeps its content
FsOpenKeep(f, path) == IF path \in DOMAIN f THEN f ELSE (path :> <<>>) @@ f

\* open( path, 'w' ): the filesystem afterwards
FsOpenW(f, path) == (path :> <<>>) @@ f

\* the handle open( path, 'w' ) returns
OpenHandle(path) == [st |-> "open", path |-> path, pos |-> 0]

\* content with data written at position pos (pos counts from 0)
WriteAt(content, pos, data) ==
  LET n == IF Len(content) > pos + Len(data) THEN Len(content)
           ELSE pos + Len(data)
  IN  [i \in 1..n |->
         IF i > pos /\ i <= pos + Len(data) THEN data[i - pos]
         ELSE IF i <= Len(content) THEN content[i]
         ELSE NUL]

\* h.write( data ): the filesystem afterwards
FsWrite(f, h, data) ==
  IF data = <<>> THEN f
  ELSE (h.path :> WriteAt(f[h.path], h.pos, data)) @@ f

\* h.write( data ): the handle afterwards
Advance(h, data) == [h EXCEPT !.pos = h.pos + Len(data)]

\* a close() that is left out
CloseHandleForgotten(h) == h

\* h.close(): the handle afterwards
CloseHandle(h) == [h EXCEPT !.st = "closed"]

(***************************************************************************)
(* What main() prints.                                                     *)
(***************************************************************************)
Header   == "Content-Type: text/plain\n"
ErrEmpty == "Error: Did not get form POST data."
ErrOpen  == "Error: Could not open output file / files for writing."
ErrWrite == "Error: Could not write to output file / files: IOError\n"
OK       == "OK"

BaseDir == "/home/w/u/wuensch/public_html/tmp/save-POST_incoming/"
my_name == "save-POST.py"

\* unique_str without the uuid, as before 2021-07-12
UniqueStrTimeOnly(t, u) == <<"_", t>>

\* unique_str of line 52
UniqueStr(t, u) == <<"_", t, "_", u>>

\* out_file_latest of line 54
LatestPath == <<BaseDir, my_name, "_latest.txt">>

(***************************************************************************)
(* State.                                                                  *)
(***************************************************************************)
Procs == {1, 2}

VARIABLES
  now,                 \* what time.time() returns
  issued,              \* the uuids handed out so far
  fs,                  \* the files under BaseDir
  pc,                  \* where each invocation is in main()
  stdin,               \* what each invocation finds on its standard input
  fault,               \* the operation of each invocation that fails
  post_data, is_JSON, json_data,
  out_file_timestamp, out_file_latest,
  out_FH_timestamp, out_FH_latest,
  stdout,              \* what each invocation has printed
  exit_status,         \* exit status of an invocation that is done
  started_after,       \* history: the invocations done when this one started
  alone,               \* history: nobody else held the latest file open
                       \*   when this one opened it
  last_writer          \* history: the invocation that wrote the latest file last

vars ==
  <<now, issued, fs, pc, stdin, fault, post_data, is_JSON, json_data,
    out_file_timestamp, out_file_latest, out_FH_timestamp, out_FH_latest,
    stdout, exit_status, started_after, alone, last_writer>>

locals == <<post_data, is_JSON, json_data>>
names == <<out_file_timestamp, out_file_latest>>
handles == <<out_FH_timestamp, out_FH_latest>>
env == <<now, issued, stdin, fault>>
history == <<started_after, alone, last_writer>>

NoValue == [t |-> "none", v |-> <<>>]

InitCommon ==
  /\ now = 0
  /\ issued = {}
  /\ fs \in {<<>>, LatestPath :> OldContent}
  /\ post_data = [p \in Procs |-> <<>>]
  /\ is_JSON = [p \in Procs |-> FALSE]
  /\ json_data = [p \in Procs |-> NoValue]
  /\ out_file_timestamp = [p \in Procs |-> <<>>]
  /\ out_file_latest = [p \in Procs |-> <<>>]
  /\ out_FH_timestamp = [p \in Procs |-> NoHandle]
  /\ out_FH_latest = [p \in Procs |-> NoHandle]
  /\ stdout = [p \in Procs |-> <<>>]
  /\ exit_status = [p \in Procs |-> -1]
  /\ started_after = [p \in Procs |-> {}]
  /\ alone = [p \in Procs |-> FALSE]
  /\ last_writer = 0

\* one invocation
Init ==
  /\ InitCommon
  /\ pc = [p \in Procs |-> IF p = 1 THEN "start" ELSE "off"]
  /\ stdin \in {s \in [Procs -> Inputs] : s[2] = <<>>}
  /\ fault \in {f \in [Procs -> Faults] : f[2] = "none"}

\* two invocations, started in any order and at any time
InitTwo ==
  /\ InitCommon
  /\ pc = [p \in Procs |-> "start"]
  /\ stdin \in [Procs -> SharedInputs]
  /\ fault \in [Procs -> SharedFaults]

\* sys.exit( status ), or the end of the process by an uncaught exception
Exit(p, status) ==
  /\ pc' = [pc EXCEPT ![p] = "done"]
  /\ exit_status' = [exit_status EXCEPT ![p] = status]

Emit(p, line) == stdout' = [stdout EXCEPT ![p] = Append(@, line)]

\* lines 82-87 with the else branch alone
ContentRaw(p) == post_data[p]

\* the text lines 82-87 write to both files
Content(p) ==
  IF is_JSON[p] THEN JsonDumps(json_data[p], 0) ELSE post_data[p]

\* q has the latest file open
HoldsLatest(q) == out_FH_latest[q].st = "open" /\ pc[q] # "done"

(***************************************************************************)
(* main(), one action per statement that reads or changes shared state.    *)
(***************************************************************************)
\* lines 49-54: the header, and the two names
Start(p) ==
  /\ pc[p] = "start"
  /\ Emit(p, Header)
  /\ \E u \in UUIDs \ issued :
       /\ issued' = issued \cup {u}
       /\ out_file_timestamp' =
            [out_file_timestamp EXCEPT ![p] = <<BaseDir, my_name>> \o UniqueStr(now, u)]
  /\ out_file_latest' = [out_file_latest EXCEPT ![p] = LatestPath]
  /\ started_after' = [started_after EXCEPT ![p] = {q \in Procs : pc[q] = "done"}]
  /\ pc' = [pc EXCEPT ![p] = "read"]
  /\ UNCHANGED <<now, fs, stdin, fault, locals, handles, exit_status, alone,
                 last_writer>>

\* lines 56-61 without the assert
ReadUnchecked(p) ==
  /\ pc[p] = "read"
  /\ IF fault[p] = "read"
       THEN /\ Emit(p, ErrEmpty)
            /\ Exit(p, 1)
            /\ UNCHANGED post_data
       ELSE /\ post_data' = [post_data EXCEPT ![p] = stdin[p]]
            /\ pc' = [pc EXCEPT ![p] = "classify"]
            /\ UNCHANGED <<stdout, exit_status>>
  /\ UNCHANGED <<env, fs, is_JSON, json_data, names, handles, history>>

\* lines 56-61
Read(p) ==
  /\ pc[p] = "read"
  /\ IF fault[p] = "read" \/ stdin[p] = <<>>
       THEN /\ Emit(p, ErrEmpty)
            /\ Exit(p, 1)
            /\ UNCHANGED post_data
       ELSE /\ post_data' = [post_data EXCEPT ![p] = stdin[p]]
            /\ pc' = [pc EXCEPT ![p] = "classify"]
            /\ UNCHANGED <<stdout, exit_status>>
  /\ UNCHANGED <<env, fs, is_JSON, json_data, names, handles, history>>

\* lines 63-70 with the parse failure reported as an error
ClassifyStrict(p) ==
  /\ pc[p] = "classify"
  /\ LET r == JsonLoads(post_data[p])
     IN  IF r.ok
           THEN /\ json_data' = [json_data EXCEPT ![p] = r.val]
                /\ is_JSON' = [is_JSON EXCEPT ![p] = TRUE]
                /\ out_file_timestamp' =
                     [out_file_timestamp EXCEPT ![p] = @ \o <<".json">>]
                /\ pc' = [pc EXCEPT ![p] = "open_ts"]
                /\ UNCHANGED <<stdout, exit_status>>
           ELSE /\ Emit(p, ErrEmpty)
                /\ Exit(p, 1)
                /\ UNCHANGED <<json_data, is_JSON, out_file_timestamp>>
  /\ UNCHANGED <<env, fs, post_data, out_file_latest, handles, history>>

\* lines 63-70 with the suffix of line 67 in both branches
ClassifyOneSuffix(p) ==
  /\ pc[p] = "classify"
  /\ LET r == JsonLoads(post_data[p])
     IN  IF r.ok
           THEN /\ json_data' = [json_data EXCEPT ![p] = r.val]
                /\ is_JSON' = [is_JSON EXCEPT ![p] = TRUE]
           ELSE /\ is_JSON' = [is_JSON EXCEPT ![p] = FALSE]
                /\ UNCHANGED json_data
  /\ out_file_timestamp' = [out_file_timestamp EXCEPT ![p] = @ \o <<".json">>]
  /\ pc' = [pc EXCEPT ![p] = "open_ts"]
  /\ UNCHANGED <<env, fs, post_data, out_file_latest, handles, stdout,
                 exit_status, history>>

\* lines 63-70
Classify(p) ==
  /\ pc[p] = "classify"
  /\ LET r == JsonLoads(post_data[p])
     IN  IF r.ok
           THEN /\ json_data' = [json_data EXCEPT ![p] = r.val]
                /\ is_JSON' = [is_JSON EXCEPT ![p] = TRUE]
                /\ out_file_timestamp' =
                     [out_file_timestamp EXCEPT ![p] = @ \o <<".json">>]
           ELSE /\ is_JSON' = [is_JSON EXCEPT ![p] = FALSE]
                /\ out_file_timestamp' =
                     [out_file_timestamp EXCEPT ![p] = @ \o <<".txt">>]
                /\ UNCHANGED json_data
  /\ pc' = [pc EXCEPT ![p] = "open_ts"]
  /\ UNCHANGED <<env, fs, post_data, out_file_latest, handles, stdout,
                 exit_status, history>>

\* line 73, and lines 75-77 when it raises
OpenTimestamp(p) ==
  /\ pc[p] = "open_ts"
  /\ IF fault[p] = "open_ts"
       THEN /\ Emit(p, ErrOpen)
            /\ Exit(p, 1)
            /\ UNCHANGED <<fs, out_FH_timestamp>>
       ELSE /\ fs' = FsOpenW(fs, out_file_timestamp[p])
            /\ out_FH_timestamp' =
                 [out_FH_timestamp EXCEPT ![p] = OpenHandle(out_file_timestamp[p])]
            /\ pc' = [pc EXCEPT ![p] = "open_latest"]
            /\ UNCHANGED <<stdout, exit_status>>
  /\ UNCHANGED <<env, locals, names, out_FH_latest, history>>

\* line 74, and lines 75-77 when it raises
OpenLatest(p) ==
  /\ pc[p] = "open_latest"
  /\ IF fault[p] = "open_latest"
       THEN /\ Emit(p, ErrOpen)
            /\ Exit(p, 1)
            /\ UNCHANGED <<fs, out_FH_latest, alone>>
       ELSE /\ fs' = FsOpenW(fs, out_file_latest[p])
            /\ out_FH_latest' =
                 [out_FH_latest EXCEPT ![p] = OpenHandle(out_file_latest[p])]
            /\ alone' = [alone EXCEPT ![p] = \A q \in Procs \ {p} : ~HoldsLatest(q)]
            /\ pc' = [pc EXCEPT ![p] = "write_ts"]
            /\ UNCHANGED <<stdout, exit_status>>
  /\ UNCHANGED <<env, locals, names, out_FH_timestamp, started_after, last_writer>>

\* line 83 or 86, and lines 88-90 when it raises (some of the text may be written)
WriteTimestamp(p) ==
  /\ pc[p] = "write_ts"
  /\ LET h == out_FH_timestamp[p]
         data == Content(p)
     IN  IF fault[p] = "write_ts"
           THEN /\ \E k \in 0..(Len(data) - 1) :
                     /\ fs' = FsWrite(fs, h, SubSeq(data, 1, k))
                     /\ out_FH_timestamp' =
                          [out_FH_timestamp EXCEPT ![p] = Advance(h, SubSeq(data, 1, k))]
                /\ Emit(p, ErrWrite)
                /\ Exit(p, 1)
           ELSE /\ fs' = FsWrite(fs, h, data)
                /\ out_FH_timestamp' = [out_FH_timestamp EXCEPT ![p] = Advance(h, data)]
                /\ pc' = [pc EXCEPT ![p] = "write_latest"]
                /\ UNCHANGED <<stdout, exit_status>>
  /\ UNCHANGED <<env, locals, names, out_FH_latest, history>>

\* line 84 or 87, and lines 88-90 when it raises
WriteLatest(p) ==
  /\ pc[p] = "write_latest"
  /\ LET h == out_FH_latest[p]
         data == Content(p)
     IN  IF fault[p] = "write_latest"
           THEN /\ \E k \in 0..(Len(data) - 1) :
                     /\ fs' = FsWrite(fs, h, SubSeq(data, 1, k))
                     /\ out_FH_latest' =
                          [out_FH_latest EXCEPT ![p] = Advance(h, SubSeq(data, 1, k))]
                     /\ last_writer' = IF k > 0 THEN p ELSE last_writer
                /\ Emit(p, ErrWrite)
                /\ Exit(p, 1)
           ELSE /\ fs' = FsWrite(fs, h, data)
                /\ out_FH_latest' = [out_FH_latest EXCEPT ![p] = Advance(h, data)]
                /\ last_writer' = p
                /\ pc' = [pc EXCEPT ![p] = "nl_ts"]
                /\ UNCHANGED <<stdout, exit_status>>
  /\ UNCHANGED <<env, locals, names, out_FH_timestamp, started_after, alone>>

\* line 92 writing to out_FH_latest, as line 93 does
NewlineTimestampOnLatest(p) ==
  /\ pc[p] = "nl_ts"
  /\ IF fault[p] = "nl_ts"
       THEN /\ Exit(p, 1)
            /\ UNCHANGED <<fs, out_FH_latest>>
       ELSE /\ fs' = FsWrite(fs, out_FH_latest[p], <<NL>>)
            /\ out_FH_latest' = [out_FH_latest EXCEPT ![p] = Advance(@, <<NL>>)]
            /\ pc' = [pc EXCEPT ![p] = "nl_latest"]
            /\ UNCHANGED exit_status
  /\ UNCHANGED <<env, locals, names, out_FH_timestamp, stdout, history>>

\* line 92; an exception here is caught nowhere
NewlineTimestamp(p) ==
  /\ pc[p] = "nl_ts"
  /\ IF fault[p] = "nl_ts"
       THEN /\ Exit(p, 1)
            /\ UNCHANGED <<fs, out_FH_timestamp>>
       ELSE /\ fs' = FsWrite(fs, out_FH_timestamp[p], <<NL>>)
            /\ out_FH_timestamp' =
                 [out_FH_timestamp EXCEPT ![p] = Advance(@, <<NL>>)]
            /\ pc' = [pc EXCEPT ![p] = "nl_latest"]
            /\ UNCHANGED exit_status
  /\ UNCHANGED <<env, locals, names, out_FH_latest, stdout, history>>

\* line 93; an exception here is caught nowhere
NewlineLatest(p) ==
  /\ pc[p] = "nl_latest"
  /\ IF fault[p] = "nl_latest"
       THEN /\ Exit(p, 1)
            /\ UNCHANGED <<fs, out_FH_latest, last_writer>>
       ELSE /\ fs' = FsWrite(fs, out_FH_latest[p], <<NL>>)
            /\ out_FH_latest' = [out_FH_latest EXCEPT ![p] = Advance(@, <<NL>>)]
            /\ last_writer' = p
            /\ pc' = [pc EXCEPT ![p] = "close_ts"]
            /\ UNCHANGED exit_status
  /\ UNCHANGED <<env, locals, names, out_FH_timestamp, stdout, started_after, alone>>

\* line 94; the file object is closed even when close() raises
CloseTimestamp(p) ==
  /\ pc[p] = "close_ts"
  /\ out_FH_timestamp' = [out_FH_timestamp EXCEPT ![p] = CloseHandle(@)]
  /\ IF fault[p] = "close_ts"
       THEN Exit(p, 1)
       ELSE /\ pc' = [pc EXCEPT ![p] = "close_latest"]
            /\ UNCHANGED exit_status
  /\ UNCHANGED <<env, fs, locals, names, out_FH_latest, stdout, history>>

\* line 95
CloseLatest(p) ==
  /\ pc[p] = "close_latest"
  /\ out_FH_latest' = [out_FH_latest EXCEPT ![p] = CloseHandle(@)]
  /\ IF fault[p] = "close_latest"
       THEN Exit(p, 1)
       ELSE /\ pc' = [pc EXCEPT ![p] = "report"]
            /\ UNCHANGED exit_status
  /\ UNCHANGED <<env, fs, locals, names, out_FH_timestamp, stdout, history>>

\* lines 97 and 101: main() returns None and sys.exit( None ) exits with 0
Report(p) ==
  /\ pc[p] = "report"
  /\ Emit(p, OK)
  /\ Exit(p, 0)
  /\ UNCHANGED <<env, fs, locals, names, handles, history>>

\* the clock moves on
Tick ==
  /\ now < MaxTime
  /\ now' = now + 1
  /\ UNCHANGED <<issued, fs, pc, stdin, fault, locals, names, handles, stdout,
                 exit_status, history>>

Next ==
  \/ Tick
  \/ \E p \in Procs :
       \/ Start(p)
       \/ Read(p)
       \/ Classify(p)
       \/ OpenTimestamp(p)
       \/ OpenLatest(p)
       \/ WriteTimestamp(p)
       \/ WriteLatest(p)
       \/ NewlineTimestamp(p)
       \/ NewlineLatest(p)
       \/ CloseTimestamp(p)
       \/ CloseLatest(p)
       \/ Report(p)

\* one invocation of main()
Spec == Init /\ [][Next]_vars

\* two invocations of main(), one after the other or at the same time
SpecTwo == InitTwo /\ [][Next]_vars

(***************************************************************************)
(* Vocabulary of the properties.                                           *)
(***************************************************************************)
Done(p) == pc[p] = "done"

\* the lines of out that are result lines
ResultLines(out) == SelectSeq(out, LAMBDA l : l \in {OK, ErrEmpty, ErrOpen, ErrWrite})

ReportedOK(p) == \E i \in 1..Len(stdout[p]) : stdout[p][i] = OK

Succeeded(p) == Done(p) /\ exit_status[p] = 0 /\ ReportedOK(p)

\* a is a prefix of b
IsPrefix(a, b) == Len(a) <= Len(b) /\ SubSeq(b, 1, Len(a)) = a

\* the invocation has passed the classification of lines 63-70
Classified(p) == pc[p] \notin {"off", "start", "read", "classify"} /\ post_data[p] # <<>>

\* what a complete, successful invocation leaves in each of its files
Complete(p) == Content(p) \o <<NL>>

\* json.dumps of SampleObject by Python 2.7, and the newline
SampleObjectStored ==
  <<"{", NL, SP, SP, SP, SP, QUOTE, "a", QUOTE, ":", SP, "2", ",", SP,
    NL, SP, SP, SP, SP, QUOTE, "b", QUOTE, ":", SP, "1", NL, "}", NL>>

(***************************************************************************)
(* C1: an invocation that has printed OK has written the full content and  *)
(* the newline to both of its files and has closed both handles.           *)
(***************************************************************************)
C1_SuccessMeansComplete ==
  \A p \in Procs :
    ReportedOK(p) =>
      /\ Done(p) /\ exit_status[p] = 0
      /\ out_file_timestamp[p] \in DOMAIN fs
      /\ out_file_latest[p] \in DOMAIN fs
      /\ fs[out_file_timestamp[p]] = Complete(p)
      /\ fs[out_file_latest[p]] = Complete(p)
      /\ out_FH_timestamp[p].st = "closed"
      /\ out_FH_latest[p].st = "closed"

C1_Witness ==
  /\ Succeeded(1)
  /\ stdin[1] = SampleNested
  /\ LatestPath \in DOMAIN fs /\ Len(fs[LatestPath]) > Len(stdin[1])

(***************************************************************************)
(* C2: for a non-empty input that is JSON, when no operation fails, both   *)
(* files hold the same text: json.dumps (sorted keys, indent 4) of the     *)
(* parsed input and one newline after it.                                  *)
(***************************************************************************)
C2_StructuredStored ==
  \A p \in Procs :
    (Done(p) /\ fault[p] = "none" /\ stdin[p] # <<>> /\ JsonLoads(stdin[p]).ok) =>
      LET text == JsonDumps(JsonLoads(stdin[p]).val, 0)
          f1 == fs[out_file_timestamp[p]]
          f2 == fs[out_file_latest[p]]
      IN  /\ f1 = f2
          /\ f1 = text \o <<NL>>
          /\ f1[Len(f1) - 1] # NL
          /\ JsonLoads(f1).ok /\ JsonDumps(JsonLoads(f1).val, 0) = text
          /\ stdin[p] = SampleObject => f1 = SampleObjectStored

C2_Witness ==
  /\ Done(1) /\ fault[1] = "none" /\ stdin[1] = SampleObject
  /\ fs[out_file_timestamp[1]] = SampleObjectStored
  /\ fs[out_file_latest[1]] # stdin[1] \o <<NL>>

(***************************************************************************)
(* C3: for a non-empty input that is no JSON, when no operation fails, the *)
(* invocation succeeds and both files hold the input and one newline after *)
(* it.                                                                     *)
(***************************************************************************)
C3_OpaqueStored ==
  \A p \in Procs :
    (Done(p) /\ fault[p] = "none" /\ stdin[p] # <<>> /\ ~JsonLoads(stdin[p]).ok) =>
      /\ exit_status[p] = 0
      /\ stdout[p] = <<Header, OK>>
      /\ fs[out_file_timestamp[p]] = stdin[p] \o <<NL>>
      /\ fs[out_file_latest[p]] = stdin[p] \o <<NL>>

C3_Witness ==
  /\ Done(1) /\ fault[1] = "none" /\ stdin[1] = SampleBroken
  /\ fs[LatestPath] = SampleBroken \o <<NL>>

(***************************************************************************)
(* C4: with empty input no step of the invocation changes the filesystem   *)
(* or opens a file, and it ends with the Error line and exit status 1.     *)
(***************************************************************************)
C4_EmptyInputFails ==
  [][\A p \in Procs :
       (stdin[p] = <<>> /\ pc'[p] # pc[p]) =>
         /\ fs' = fs
         /\ out_FH_timestamp'[p] = NoHandle
         /\ out_FH_latest'[p] = NoHandle
         /\ pc'[p] = "done" =>
              (exit_status'[p] = 1 /\ stdout'[p] = <<Header, ErrEmpty>>)]_vars

C4_Witness ==
  /\ Done(1) /\ stdin[1] = <<>> /\ fault[1] = "none"
  /\ exit_status[1] = 1
  /\ LatestPath \in DOMAIN fs /\ fs[LatestPath] = OldContent

(***************************************************************************)
(* C5: an invocation that has ended has printed exactly one result line,   *)
(* OK with exit status 0 or an Error line with exit status 1.              *)
(***************************************************************************)
C5_OneResultLine ==
  \A p \in Procs :
    Done(p) =>
      \/ ResultLines(stdout[p]) = <<OK>> /\ exit_status[p] = 0
      \/ /\ Len(ResultLines(stdout[p])) = 1
         /\ ResultLines(stdout[p])[1] # OK
         /\ exit_status[p] = 1

(***************************************************************************)
(* C6: an invocation that has ended has closed every handle it opened.     *)
(***************************************************************************)
C6_HandlesClosed ==
  \A p \in Procs :
    Done(p) => out_FH_timestamp[p].st # "open" /\ out_FH_latest[p].st # "open"

(***************************************************************************)
(* C7: of two successful invocations, the second started after the first   *)
(* had ended, the unique files have different names, the latest file is    *)
(* the same path and holds the second's content, and the first's unique    *)
(* file still holds the first's content.                                   *)
(***************************************************************************)
C7_Sequential ==
  \A p, q \in Procs :
    (Succeeded(p) /\ Succeeded(q) /\ p \in started_after[q]) =>
      /\ out_file_timestamp[p] # out_file_timestamp[q]
      /\ out_file_latest[p] = out_file_latest[q]
      /\ fs[out_file_latest[q]] = Complete(q)
      /\ fs[out_file_timestamp[p]] = Complete(p)
      /\ fs[out_file_timestamp[q]] = Complete(q)

C7_Witness ==
  /\ Succeeded(1) /\ Succeeded(2) /\ 1 \in started_after[2]
  /\ stdin[1] = SampleObject /\ stdin[2] = SampleText
  /\ out_file_timestamp[1][4] = out_file_timestamp[2][4]

(***************************************************************************)
(* C8, as claimed: once two invocations have both ended with OK, the       *)
(* latest file holds the complete output of the one that wrote last.       *)
(***************************************************************************)
C8_LastWriterWins ==
  (Succeeded(1) /\ Succeeded(2)) => fs[LatestPath] = Complete(last_writer)

(***************************************************************************)
(* C8, amended: the latest file holds the complete output of the one that  *)
(* wrote last when neither invocation opened the latest file while the     *)
(* other held it open.                                                     *)
(***************************************************************************)
C8_LastWriterWinsWhenApart ==
  (Succeeded(1) /\ Succeeded(2) /\ alone[1] /\ alone[2]) =>
    fs[LatestPath] = Complete(last_writer)

C8_Witness ==
  /\ Succeeded(1) /\ Succeeded(2) /\ alone[1] /\ alone[2]
  /\ 2 \notin started_after[1] /\ 1 \notin started_after[2]
  /\ last_writer = 2
  /\ Len(Complete(1)) > Len(Complete(2))

(***************************************************************************)
(* C9: no file is opened before the input is classified; the unique name   *)
(* ends in .json exactly when the input is JSON and in .txt otherwise; the *)
(* latest name is the same for every input and ends in _latest.txt.        *)
(***************************************************************************)
C9_SuffixFollowsClass ==
  \A p \in Procs :
    /\ (out_FH_timestamp[p] # NoHandle \/ out_FH_latest[p] # NoHandle) => Classified(p)
    /\ Classified(p) =>
         LET name == out_file_timestamp[p]
         IN  /\ is_JSON[p] = JsonLoads(stdin[p]).ok
             /\ name[Len(name)] = IF is_JSON[p] THEN ".json" ELSE ".txt"
             /\ stdin[p] \in {SampleObject, SampleNested, SampleNumber}
                  => name[Len(name)] = ".json"
             /\ stdin[p] \in {SampleText, SampleBroken} => name[Len(name)] = ".txt"
    /\ pc[p] \notin {"off", "start"} =>
         /\ out_file_latest[p] = <<BaseDir, my_name, "_latest.txt">>
         /\ out_file_latest[p] \notin {out_file_timestamp[q] : q \in Procs}

C9_Witness ==
  /\ Done(1) /\ stdin[1] = SampleNumber
  /\ out_file_timestamp[1][Len(out_file_timestamp[1])] = ".json"
  /\ out_file_latest[1][3] = "_latest.txt"

(***************************************************************************)
(* C10: within an invocation the unique file is ahead of the latest file   *)
(* at every stage: the latest file is opened only after the unique file,   *)
(* what the invocation has written to it is a prefix of what it has        *)
(* written to the unique file, and it is closed only after the unique file.*)
(***************************************************************************)
C10_UniqueFirst ==
  \A p \in Procs :
    out_FH_latest[p] # NoHandle =>
      /\ out_FH_timestamp[p] # NoHandle
      /\ out_FH_latest[p].pos <= out_FH_timestamp[p].pos
      /\ IsPrefix(fs[out_file_latest[p]], fs[out_file_timestamp[p]])
      /\ out_FH_latest[p].st = "closed" => out_FH_timestamp[p].st = "closed"

C10_Witness ==
  /\ Done(1) /\ fault[1] = "write_latest" /\ stdin[1] = SampleText
  /\ Len(fs[LatestPath]) = 2
  /\ fs[out_file_timestamp[1]] = SampleText

====
